---- MODULE Spec2Model ----
(***************************************************************************)
(* Model of the hierarchical execution engine of qlib.contrib.backtest:    *)
(* BaseExecutor, SplitExecutor and SimulatorExecutor (executor.py).        *)
(*                                                                         *)
(* An executor tree is a chain of levels 1..depth: levels below depth are  *)
(* SplitExecutors, level depth is the SimulatorExecutor.  Time is counted  *)
(* in bars of the leaf frequency; one bar of level l spans Ratio bars of   *)
(* level l+1.  execute() is one atomic step (the operators SplitExecute    *)
(* and SimulatorExecute); collect_data() is a generator and is modelled    *)
(* by one action per stretch of code between two suspension points.        *)
(***************************************************************************)
EXTENDS Integers, Sequences, FiniteSets, TLC

\* ---------------------------------------------------------------- bounds
MaxDepth == 2
NumBars == 2
Ratio == 2

Levels == 1..MaxDepth
\* the run spans Horizon bars of the leaf frequency
Horizon == NumBars * Ratio

\* ------------------------------------------------------ program constants
TradeUnit == 100
OpenCostBp == 15
CloseCostBp == 25
MinCost == 5
InitCash == 1000000000
DealPrice == 100

VARIABLES
    depth,            \* number of executor levels of the tree
    track_data,       \* BaseExecutor.track_data, per level
    generate_report,  \* BaseExecutor.generate_report, per level
    has_account,      \* hasattr(self, "trade_account"), per level
    trade_exchange,   \* BaseExecutor.trade_exchange, per level ("none": not set)
    calendar,         \* BaseExecutor.calendar, per level
    trade_account,    \* BaseExecutor.trade_account, per level
    position,         \* the Position objects the Accounts refer to, by identity
    strategy,         \* SplitExecutor.inner_strategy, per split level
    completed,        \* history: execute/collect_data calls completed per level
    pc,               \* collect_data generator: position of each level's frame
    trade_decision,   \* collect_data generator: the frame's argument
    execute_result,   \* collect_data generator: the frame's execute_result
    inner_result,     \* collect_data generator: the frame's _inner_execute_result
    call,             \* the driver's current/last call on the root executor
    ret,              \* value returned by the last completed call
    snap,             \* history: state of the tree when the call was made
    log               \* history: events of the current/last call

vars == <<depth, track_data, generate_report, has_account, trade_exchange,
          calendar, trade_account, position, strategy, completed, pc,
          trade_decision, execute_result, inner_result, call, ret, snap, log>>

config == <<depth, track_data, generate_report, has_account, trade_exchange>>
frames == <<pc, trade_decision, execute_result, inner_result>>

\* ----------------------------------------------------------------- values
Min(a, b) == IF a < b THEN a ELSE b
Max(a, b) == IF a > b THEN a ELSE b

RECURSIVE Pow(_, _)
Pow(b, e) == IF e = 0 THEN 1 ELSE b * Pow(b, e - 1)

NoneVal == [none |-> TRUE, list |-> <<>>]
Some(r) == [none |-> FALSE, list |-> r]

BuyX == [stock_id |-> "X", direction |-> "BUY", amount |-> 100]
SellX == [stock_id |-> "X", direction |-> "SELL", amount |-> 100]
BuyY == [stock_id |-> "Y", direction |-> "BUY", amount |-> 100]
OddX == [stock_id |-> "X", direction |-> "BUY", amount |-> 50]

\* the decisions the driver may hand to the root executor
Decisions == { <<>>, <<BuyY, BuyX>>, <<BuyX, OddX, SellX>> }
\* the inner strategies the tree may be built with
Policies == { "repeat", "react" }

NoCal == [start |-> 0, end |-> 0, idx |-> 0]

\* ------------------------------------------------------- TradeCalendarManager
\* length of one bar of level l, in leaf bars
time_per_step(l) == Pow(Ratio, depth - l)

CalReset(s, e) == [start |-> s, end |-> e, idx |-> 0]
BarCount(cal, len) == (cal.end - cal.start) \div len
CalFinished(cal, len) == cal.idx = BarCount(cal, len)
CalStep(cal) == [cal EXCEPT !.idx = @ + 1]
get_trade_index(cal) == cal.idx
get_calendar_time(cal, len, trade_index) ==
    <<cal.start + (trade_index - 1) * len, cal.start + trade_index * len>>

\* ------------------------------------------------------------------ Exchange
Tradable(stock_id) == stock_id = "X"
RoundAmount(amount) == (amount \div TradeUnit) * TradeUnit
check_order(order) == Tradable(order.stock_id) /\ RoundAmount(order.amount) > 0

\* (trade_val, trade_cost, trade_price) and the account after the deal
deal_order(order, acc) ==
    LET want == RoundAmount(order.amount)
        amt == IF order.direction = "BUY"
               THEN Min(want, ((acc.cash \div DealPrice) \div TradeUnit) * TradeUnit)
               ELSE Min(want, acc.position)
        val == amt * DealPrice
        rate == IF order.direction = "BUY" THEN OpenCostBp ELSE CloseCostBp
        cost == Max(MinCost, (val * rate) \div 10000)
    IN [trade_val |-> val, trade_cost |-> cost, trade_price |-> DealPrice,
        account |-> IF order.direction = "BUY"
                    THEN [acc EXCEPT !.cash = @ - val - cost, !.position = @ + amt]
                    ELSE [acc EXCEPT !.cash = @ + val - cost, !.position = @ - amt]]

\* ------------------------------------------------------------------- Account
\* identities of Position objects: 0 is the one of the Account the caller
\* constructs, l the one an Account of level l would have if it had its own
Objs == 0..MaxDepth
\* an Account holds its cash, bar count and report itself and refers to the
\* Position object that holds its positions
NewAccount == [cash |-> InitCash, positions |-> 0, bar_count |-> 0, report |-> <<>>]
\* Account.reset(freq=..., init_report=True): a new, empty report
AccountReset(acc) == [acc EXCEPT !.bar_count = 0, !.report = <<>>]
update_bar_count(acc) == [acc EXCEPT !.bar_count = @ + 1]
\* a report row is kept by the bar it closes; its valuation is not modelled
update_bar_report(acc, trade_start_time, trade_end_time) ==
    [acc EXCEPT !.report = Append(@, [start |-> trade_start_time, end |-> trade_end_time])]

\* ------------------------------------------------------ the state operated on
\* The tree's mutable state as one value, so that execute() is a function.
Cur == [calendar |-> calendar, trade_account |-> trade_account,
        position |-> position, strategy |-> strategy, completed |-> completed,
        track_data |-> track_data, has_account |-> has_account,
        trade_exchange |-> trade_exchange, log |-> log, diverged |-> FALSE]

\* the Account of level l as its holder sees it: its own fields and the
\* content of the Position object it refers to
AccountOf(st, l) ==
    [cash |-> st.trade_account[l].cash,
     position |-> st.position[st.trade_account[l].positions],
     bar_count |-> st.trade_account[l].bar_count,
     report |-> st.trade_account[l].report]

\* Account.apply(match_result): the cash is set on the Account, the amount
\* is written into the Position object
UpdateOrder(st, l, a) ==
    [st EXCEPT !.trade_account[l].cash = a.cash,
               !.position[st.trade_account[l].positions] = a.position]

\* history: event e of level l has happened and left the state st; dec is the
\* decision (or the order) and arg the result the event is about
Emit(st, e, l, d, a) ==
    [st EXCEPT !.log = Append(@, [ev |-> e, level |-> l, dec |-> d, arg |-> a,
                                  cal |-> st.calendar[l], acct |-> AccountOf(st, l),
                                  exch |-> st.trade_exchange[l]])]

finished(st, l) == CalFinished(st.calendar[l], time_per_step(l))

\* mutant: the calendar index is not advanced
Step_NoAdvance(st, l) ==
    Emit(st, "step", l, <<>>, NoneVal)

\* calendar.step()
Step(st, l) ==
    Emit([st EXCEPT !.calendar[l] = CalStep(@)], "step", l, <<>>, NoneVal)

\* mutant: the calendar is rebuilt on the new range but keeps its index
ExecutorReset_KeepIndex(st, l, start_time, end_time) ==
    Emit([st EXCEPT !.calendar[l] = [start |-> start_time, end |-> end_time,
                                     idx |-> Min(@.idx, end_time - start_time)]],
         "reset", l, <<>>, NoneVal)

\* mutant: the calendar is rebuilt from the start of the run, as long as asked
ExecutorReset_FromZero(st, l, start_time, end_time) ==
    Emit([st EXCEPT !.calendar[l] = CalReset(0, end_time - start_time)],
         "reset", l, <<>>, NoneVal)

\* BaseExecutor.reset(start_time=..., end_time=...)
ExecutorReset(st, l, start_time, end_time) ==
    Emit([st EXCEPT !.calendar[l] = CalReset(start_time, end_time)],
         "reset", l, <<>>, NoneVal)

\* inner_strategy.reset(level_infra=..., outer_trade_decision=...)
StrategyReset(st, l, level_infra, outer_trade_decision) ==
    Emit([st EXCEPT !.strategy[l].level_infra = level_infra,
                    !.strategy[l].outer_trade_decision = outer_trade_decision],
         "strategy_reset", l, outer_trade_decision, NoneVal)

\* The strategy is an external collaborator; two stand for it.  "repeat"
\* hands the outer decision down in every inner bar; "react" opens the bar
\* with an order list of its own and then answers the last result: the outer
\* decision after a bar without a deal, nothing after a bar with one.
Policy(s, arg) ==
    IF s.policy = "repeat" THEN s.outer_trade_decision
    ELSE IF arg.none THEN <<BuyY, BuyX>>
    ELSE IF arg.list = <<>> THEN s.outer_trade_decision
    ELSE <<>>

\* inner_strategy.generate_trade_decision(execute_result)
GenerateTradeDecision(st, l, arg) ==
    LET d == Policy(st.strategy[l], arg)
    IN [st |-> Emit(st, "generate", l, d, arg), decision |-> d]

\* the return statement of execute / collect_data of level l
Return(st, l, result) ==
    [st |-> Emit([st EXCEPT !.completed[l] = @ + 1], "return", l, <<>>, Some(result)),
     result |-> result]

\* ------------------------------------------------------------ SplitExecutor
\* mutant: the inner executor is reset to the whole range of the outer
\* calendar instead of the bar just stepped into
InitSubTrading_WholeRange(st, l, decision) ==
    LET s1 == ExecutorReset(st, l + 1, st.calendar[l].start, st.calendar[l].end)
    IN StrategyReset(s1, l, l + 1, decision)

InitSubTrading(st, l, decision) ==
    LET trade_index == get_trade_index(st.calendar[l])
        t == get_calendar_time(st.calendar[l], time_per_step(l), trade_index)
        s1 == ExecutorReset(st, l + 1, t[1], t[2])
    IN StrategyReset(s1, l, l + 1, decision)

\* mutant: the bar is closed twice on the account
UpdateTradeAccount_Twice(st, l) ==
    LET trade_index == get_trade_index(st.calendar[l])
        t == get_calendar_time(st.calendar[l], time_per_step(l), trade_index)
        s1 == Emit([st EXCEPT !.trade_account[l] = update_bar_count(update_bar_count(@))],
                   "bar_count", l, <<>>, NoneVal)
    IN IF generate_report[l]
       THEN Emit([s1 EXCEPT !.trade_account[l] =
                      update_bar_report(update_bar_report(@, t[1], t[2]), t[1], t[2])],
                 "bar_report", l, <<>>, NoneVal)
       ELSE s1

\* mutant: the report row is appended whether or not the level reports
UpdateTradeAccount_AlwaysReport(st, l) ==
    LET trade_index == get_trade_index(st.calendar[l])
        t == get_calendar_time(st.calendar[l], time_per_step(l), trade_index)
        s1 == Emit([st EXCEPT !.trade_account[l] = update_bar_count(@)],
                   "bar_count", l, <<>>, NoneVal)
    IN Emit([s1 EXCEPT !.trade_account[l] = update_bar_report(@, t[1], t[2])],
            "bar_report", l, <<>>, NoneVal)

UpdateTradeAccount(st, l) ==
    LET trade_index == get_trade_index(st.calendar[l])
        t == get_calendar_time(st.calendar[l], time_per_step(l), trade_index)
        s1 == Emit([st EXCEPT !.trade_account[l] = update_bar_count(@)],
                   "bar_count", l, <<>>, NoneVal)
    IN IF generate_report[l]
       THEN Emit([s1 EXCEPT !.trade_account[l] = update_bar_report(@, t[1], t[2])],
                 "bar_report", l, <<>>, NoneVal)
       ELSE s1

\* -------------------------------------------------------- SimulatorExecutor
RECURSIVE DealOrders(_, _, _, _)
\* mutant: the results are collected in reverse order
DealOrders_Prepend(st, l, orders, acc) ==
    IF orders = <<>> THEN [st |-> st, result |-> acc]
    ELSE LET order == Head(orders)
             s1 == Emit(st, "check", l, <<order>>, NoneVal)
         IN IF check_order(order)
            THEN LET r == deal_order(order, AccountOf(s1, l))
                     s2 == Emit(UpdateOrder(s1, l, r.account),
                                "deal", l, <<order>>, NoneVal)
                 IN DealOrders(s2, l, Tail(orders),
                               <<<<order, r.trade_val, r.trade_cost, r.trade_price>>>> \o acc)
            ELSE DealOrders(s1, l, Tail(orders), acc)

\* mutant: an order that fails validation ends the loop
DealOrders_Break(st, l, orders, acc) ==
    IF orders = <<>> THEN [st |-> st, result |-> acc]
    ELSE LET order == Head(orders)
             s1 == Emit(st, "check", l, <<order>>, NoneVal)
         IN IF check_order(order)
            THEN LET r == deal_order(order, AccountOf(s1, l))
                     s2 == Emit(UpdateOrder(s1, l, r.account),
                                "deal", l, <<order>>, NoneVal)
                 IN DealOrders(s2, l, Tail(orders),
                               Append(acc, <<order, r.trade_val, r.trade_cost, r.trade_price>>))
            ELSE [st |-> s1, result |-> acc]

\* the for loop of SimulatorExecutor.execute over the orders still to handle
DealOrders(st, l, orders, acc) ==
    IF orders = <<>> THEN [st |-> st, result |-> acc]
    ELSE LET order == Head(orders)
             s1 == Emit(st, "check", l, <<order>>, NoneVal)
         IN IF check_order(order)
            THEN LET r == deal_order(order, AccountOf(s1, l))
                     s2 == Emit(UpdateOrder(s1, l, r.account),
                                "deal", l, <<order>>, NoneVal)
                 IN DealOrders(s2, l, Tail(orders),
                               Append(acc, <<order, r.trade_val, r.trade_cost, r.trade_price>>))
            ELSE DealOrders(s1, l, Tail(orders), acc)

SimulatorExecute(st, l, decision) ==
    LET s1 == Step(st, l)
        trade_index == get_trade_index(s1.calendar[l])
        t == get_calendar_time(s1.calendar[l], time_per_step(l), trade_index)
        r == DealOrders(s1, l, decision, <<>>)
        s2 == Emit([r.st EXCEPT !.trade_account[l] = update_bar_count(@)],
                   "bar_count", l, <<>>, NoneVal)
        s3 == IF generate_report[l]
              THEN Emit([s2 EXCEPT !.trade_account[l] = update_bar_report(@, t[1], t[2])],
                        "bar_report", l, <<>>, NoneVal)
              ELSE s2
    IN Return(s3, l, r.result)

\* --------------------------------------------------- SplitExecutor.execute
\* iterations after which the model gives up on a loop that does not end
Fuel == Ratio + 2

RECURSIVE ExecuteLevel(_, _, _)
RECURSIVE InnerLoop(_, _, _, _, _)
\* mutant: the result of the inner execute is not kept for the next call
InnerLoop_Stale(st, l, inner_execute_result, result, iters) ==
    IF finished(st, l + 1) THEN [st |-> st, result |-> result]
    ELSE IF iters >= Fuel THEN [st |-> [st EXCEPT !.diverged = TRUE], result |-> result]
    ELSE LET g == GenerateTradeDecision(st, l, inner_execute_result)
             r == ExecuteLevel(g.st, l + 1, g.decision)
         IN InnerLoop(r.st, l, inner_execute_result, result \o r.result, iters + 1)

\* mutant: the inner executor is handed the decision of the outer bar
InnerLoop_OuterDecision(st, l, inner_execute_result, result, iters) ==
    IF finished(st, l + 1) THEN [st |-> st, result |-> result]
    ELSE IF iters >= Fuel THEN [st |-> [st EXCEPT !.diverged = TRUE], result |-> result]
    ELSE LET g == GenerateTradeDecision(st, l, inner_execute_result)
             r == ExecuteLevel(g.st, l + 1, st.strategy[l].outer_trade_decision)
         IN InnerLoop(r.st, l, Some(r.result), result \o r.result, iters + 1)

\* the while loop of SplitExecutor.execute
InnerLoop(st, l, inner_execute_result, result, iters) ==
    IF finished(st, l + 1) THEN [st |-> st, result |-> result]
    ELSE IF iters >= Fuel THEN [st |-> [st EXCEPT !.diverged = TRUE], result |-> result]
    ELSE LET g == GenerateTradeDecision(st, l, inner_execute_result)
             r == ExecuteLevel(g.st, l + 1, g.decision)
         IN InnerLoop(r.st, l, Some(r.result), result \o r.result, iters + 1)

\* mutant: the outer bar is closed on the account before its inner bars run
SplitExecute_CloseFirst(st, l, decision) ==
    LET s1 == Step(st, l)
        s2 == InitSubTrading(s1, l, decision)
        s3 == IF has_account[l] THEN UpdateTradeAccount(s2, l) ELSE s2
        r == InnerLoop(s3, l, NoneVal, <<>>, 0)
    IN Return(r.st, l, r.result)

SplitExecute(st, l, decision) ==
    LET s1 == Step(st, l)
        s2 == InitSubTrading(s1, l, decision)
        r == InnerLoop(s2, l, NoneVal, <<>>, 0)
        s3 == IF has_account[l] THEN UpdateTradeAccount(r.st, l) ELSE r.st
    IN Return(s3, l, r.result)

\* inner_executor.execute(...): dispatch on the class of level l
ExecuteLevel(st, l, decision) ==
    IF l = depth THEN SimulatorExecute(st, l, decision)
    ELSE SplitExecute(st, l, decision)

\* ---------------------------------------------------------------- the driver
Idle == \A l \in Levels : pc[l] = "idle"
Running == \E l \in Levels : pc[l] \in {"begin", "loop"}
Suspended == ~Running /\ \E l \in Levels : pc[l] \in {"created", "yield"}

\* number of generate_trade_decision calls of one execute at depth d
RECURSIVE NCalls(_)
NCalls(d) == IF d <= 1 THEN 0 ELSE Ratio * (1 + NCalls(d - 1))

\* number of bars of the root calendar
RootBars == Max(1, Horizon \div time_per_step(1))

\* The driver makes a call when no generator is live and the run has not
\* ended: an exception ends it, and so does dropping a sequence half-way
\* (the caller that stops early).
Callable == call.status \notin {"raised", "diverged", "abandoned"}

Snapshot(d) == [calendar |-> calendar, trade_account |-> trade_account,
                position |-> position, strategy |-> strategy,
                completed |-> completed, track_data |-> track_data,
                has_account |-> has_account, trade_exchange |-> trade_exchange,
                decision |-> d]

Store(st) ==
    /\ calendar' = st.calendar
    /\ trade_account' = st.trade_account
    /\ position' = st.position
    /\ strategy' = st.strategy
    /\ completed' = st.completed
    /\ log' = st.log

\* the tree as its constructors leave it, up to the exchanges
InitTree ==
    /\ depth \in 1..MaxDepth
    /\ track_data \in [Levels -> BOOLEAN]
    /\ generate_report \in [Levels -> BOOLEAN]
    /\ has_account \in [Levels -> BOOLEAN]
    /\ \A l \in Levels : l > depth =>
           ~track_data[l] /\ ~generate_report[l] /\ ~has_account[l]
    /\ has_account[depth]
    /\ \A l \in Levels : (l < depth /\ has_account[l]) => has_account[l + 1]
    /\ \A l \in Levels : generate_report[l] => has_account[l]
    /\ calendar = [l \in Levels |->
           IF l <= depth THEN CalReset(0, RootBars * time_per_step(1)) ELSE NoCal]
    /\ trade_account = [l \in Levels |-> AccountReset(NewAccount)]
    /\ position = [o \in Objs |-> 0]
    /\ \E p \in [Levels -> Policies] :
         /\ \A l \in Levels : l >= depth => p[l] = "repeat"
         /\ strategy = [l \in Levels |-> [policy |-> p[l], level_infra |-> l,
                                           outer_trade_decision |-> <<>>]]
    /\ completed = [l \in Levels |-> 0]
    /\ pc = [l \in Levels |-> "idle"]
    /\ trade_decision = [l \in Levels |-> <<>>]
    /\ execute_result = [l \in Levels |-> <<>>]
    /\ inner_result = [l \in Levels |-> NoneVal]
    /\ call = [kind |-> "none", status |-> "none"]
    /\ ret = NoneVal
    /\ log = <<>>

\* the levels that keep a reference to an exchange: the leaf, and a
\* SplitExecutor that generates a report
HoldsExchange(l) == l = depth \/ (l < depth /\ generate_report[l])

\* every level was given the exchange of the common infra
Init ==
    /\ InitTree
    /\ trade_exchange = [l \in Levels |-> IF HoldsExchange(l) THEN "E1" ELSE "none"]
    /\ snap = Snapshot(<<>>)

\* the driver calls root.execute(d)
Execute ==
    /\ Idle
    /\ Callable
    /\ \E d \in Decisions :
        /\ snap' = Snapshot(d)
        /\ IF finished(Cur, 1)
           THEN /\ call' = [kind |-> "execute", status |-> "raised"]
                /\ log' = <<>>
                /\ UNCHANGED <<calendar, trade_account, position, strategy, completed, ret>>
           ELSE LET r == ExecuteLevel([Cur EXCEPT !.log = <<>>], 1, d)
                IN /\ Store(r.st)
                   /\ ret' = Some(r.result)
                   /\ call' = [kind |-> "execute",
                               status |-> IF r.st.diverged THEN "diverged" ELSE "returned"]
    /\ UNCHANGED <<config, frames>>

\* ------------------------------------------------- collect_data (generator)
NoFrames ==
    /\ pc' = [l \in Levels |-> "idle"]
    /\ trade_decision' = [l \in Levels |-> <<>>]
    /\ execute_result' = [l \in Levels |-> <<>>]
    /\ inner_result' = [l \in Levels |-> NoneVal]

\* mutant: every level yields its decision, whatever its track_data
Enter_Always(st, l, d) ==
    [st |-> Emit(st, "yield", l, d, NoneVal), pc |-> "yield"]

\* mutant: the calendar is stepped before the decision is yielded
Enter_Late(st, l, d) ==
    IF track_data[l]
    THEN [st |-> Emit(Step(st, l), "yield", l, d, NoneVal), pc |-> "yield"]
    ELSE [st |-> st, pc |-> "begin"]

\* the first statement of collect_data, `if self.track_data: yield
\* trade_decision`: the frame of level l either suspends there or goes on
Enter(st, l, d) ==
    IF track_data[l]
    THEN [st |-> Emit(st, "yield", l, d, NoneVal), pc |-> "yield"]
    ELSE [st |-> st, pc |-> "begin"]

\* mutant: the index is advanced before the calendar finds it is finished
Raise_Stepped ==
    /\ NoFrames
    /\ call' = [call EXCEPT !.status = "raised"]
    /\ calendar' = [calendar EXCEPT ![1] = CalStep(@)]
    /\ UNCHANGED <<trade_account, position, strategy, completed, log, ret>>

\* an exception leaves the generator: every frame is gone
Raise ==
    /\ NoFrames
    /\ call' = [call EXCEPT !.status = "raised"]
    /\ UNCHANGED <<calendar, trade_account, position, strategy, completed, log, ret>>

\* the frame of level l has returned r: its caller goes on
GenReturn(r, l) ==
    LET result == r.result
    IN /\ Store(r.st)
       /\ IF l = 1
          THEN /\ NoFrames
               /\ ret' = Some(result)
               /\ call' = [call EXCEPT !.status = "returned"]
          ELSE /\ pc' = [pc EXCEPT ![l] = "idle", ![l - 1] = "loop"]
               /\ trade_decision' = [trade_decision EXCEPT ![l] = <<>>]
               /\ inner_result' = [inner_result EXCEPT ![l - 1] = Some(result)]
               /\ execute_result' = [execute_result EXCEPT ![l - 1] = @ \o result]
               /\ UNCHANGED <<ret, call>>

\* mutant: the call itself already steps the calendar
CollectData_Eager ==
    /\ Idle
    /\ Callable
    /\ ~finished(Cur, 1)
    /\ \E d \in Decisions :
        /\ snap' = Snapshot(d)
        /\ trade_decision' = [trade_decision EXCEPT ![1] = d]
    /\ pc' = [pc EXCEPT ![1] = "created"]
    /\ call' = [kind |-> "collect_data", status |-> "live"]
    /\ log' = <<>>
    /\ ret' = NoneVal
    /\ calendar' = [calendar EXCEPT ![1] = CalStep(@)]
    /\ UNCHANGED <<config, trade_account, position, strategy, completed,
                   execute_result, inner_result>>

\* the driver calls root.collect_data(d): a generator object, no code has run
CollectData ==
    /\ Idle
    /\ Callable
    /\ \E d \in Decisions :
        /\ snap' = Snapshot(d)
        /\ trade_decision' = [trade_decision EXCEPT ![1] = d]
    /\ pc' = [pc EXCEPT ![1] = "created"]
    /\ call' = [kind |-> "collect_data", status |-> "live"]
    /\ log' = <<>>
    /\ ret' = NoneVal
    /\ UNCHANGED <<config, calendar, trade_account, position, strategy, completed,
                   execute_result, inner_result>>

\* the driver asks for the next element: the generator starts or resumes
GenNext ==
    /\ Suspended
    /\ IF pc[1] = "created"
       THEN LET e == Enter(Cur, 1, trade_decision[1])
            IN /\ pc' = [pc EXCEPT ![1] = e.pc]
               /\ log' = e.st.log
       ELSE /\ \E l \in Levels : pc[l] = "yield" /\ pc' = [pc EXCEPT ![l] = "begin"]
            /\ UNCHANGED log
    /\ UNCHANGED <<config, calendar, trade_account, position, strategy, completed,
                   trade_decision, execute_result, inner_result, call, ret, snap>>

\* the driver drops the generator without draining it
Abandon ==
    /\ Suspended
    /\ NoFrames
    /\ call' = [call EXCEPT !.status = "abandoned"]
    /\ UNCHANGED <<config, calendar, trade_account, position, strategy, completed, ret, snap, log>>

\* SplitExecutor.collect_data: calendar.step() up to the loop
SplitBegin(l) ==
    /\ l < depth
    /\ pc[l] = "begin"
    /\ IF finished(Cur, l)
       THEN Raise
       ELSE /\ Store(InitSubTrading(Step(Cur, l), l, trade_decision[l]))
            /\ pc' = [pc EXCEPT ![l] = "loop"]
            /\ execute_result' = [execute_result EXCEPT ![l] = <<>>]
            /\ inner_result' = [inner_result EXCEPT ![l] = NoneVal]
            /\ UNCHANGED <<trade_decision, call, ret>>
    /\ UNCHANGED <<config, snap>>

\* SplitExecutor.collect_data: loop test true, ask the strategy, enter the
\* inner executor's collect_data
SplitGenerate(l) ==
    /\ l < depth
    /\ pc[l] = "loop"
    /\ ~finished(Cur, l + 1)
    /\ LET g == GenerateTradeDecision(Cur, l, inner_result[l])
           e == Enter(g.st, l + 1, g.decision)
       IN /\ Store(e.st)
          /\ trade_decision' = [trade_decision EXCEPT ![l + 1] = g.decision]
          /\ pc' = [pc EXCEPT ![l] = "call", ![l + 1] = e.pc]
    /\ UNCHANGED <<config, execute_result, inner_result, call, ret, snap>>

\* mutant: collect_data returns without closing the bar on the account
SplitEnd_NoClose(l) ==
    /\ l < depth
    /\ pc[l] = "loop"
    /\ finished(Cur, l + 1)
    /\ GenReturn(Return(Cur, l, execute_result[l]), l)
    /\ UNCHANGED <<config, snap>>

\* SplitExecutor.collect_data: loop test false, close the bar, return
SplitEnd(l) ==
    /\ l < depth
    /\ pc[l] = "loop"
    /\ finished(Cur, l + 1)
    /\ GenReturn(Return(IF has_account[l] THEN UpdateTradeAccount(Cur, l) ELSE Cur,
                        l, execute_result[l]), l)
    /\ UNCHANGED <<config, snap>>

\* BaseExecutor.collect_data of the leaf: return self.execute(trade_decision)
LeafExecute ==
    /\ pc[depth] = "begin"
    /\ IF finished(Cur, depth)
       THEN Raise
       ELSE LET r == SimulatorExecute(Cur, depth, trade_decision[depth])
            IN GenReturn(r, depth)
    /\ UNCHANGED <<config, snap>>

Next ==
    \/ Execute
    \/ CollectData
    \/ GenNext
    \/ Abandon
    \/ \E l \in Levels : SplitBegin(l)
    \/ \E l \in Levels : SplitGenerate(l)
    \/ \E l \in Levels : SplitEnd(l)
    \/ LeafExecute

Spec == Init /\ [][Next]_vars

\* ------------------------------------------------------------- common infra
\* E2 is the exchange of the common infra, E1 one a level was constructed with
Exchanges == {"E1", "E2"}
\* a common_infra dict by the keys it may hold: "none" is an absent key,
\* "caller" the Account the caller constructed
Infras == [trade_account : {"none", "caller"}, trade_exchange : {"none", "E2"}]

\* mutant: the copy is deep, the new Account gets a Position object of its own
CopyAccount_Deep(st, l, acc) ==
    [st EXCEPT !.trade_account[l] = [acc EXCEPT !.positions = l],
               !.position[l] = st.position[acc.positions],
               !.has_account[l] = TRUE]

\* self.trade_account = copy.copy(...): a new Account object whose attributes
\* are those of the original, the reference to the Position object included
CopyAccount(st, l, acc) ==
    [st EXCEPT !.trade_account[l] = acc, !.has_account[l] = TRUE]

\* BaseExecutor.reset_common_infra
BaseResetCommonInfra(st, l, common_infra) ==
    LET s1 == Emit(st, "infra", l, <<>>, Some(<<common_infra>>))
    IN IF common_infra.trade_account # "none"
       THEN LET s2 == CopyAccount(s1, l, NewAccount)
            IN Emit([s2 EXCEPT !.trade_account[l] = AccountReset(@)],
                    "infra_account", l, <<>>, NoneVal)
       ELSE s1

RECURSIVE reset_common_infra(_, _, _)
\* mutant: the infra stops at this level
SplitResetCommonInfra_Local(st, l, common_infra) ==
    LET s1 == BaseResetCommonInfra(st, l, common_infra)
    IN IF generate_report[l] /\ common_infra.trade_exchange # "none"
       THEN [s1 EXCEPT !.trade_exchange[l] = common_infra.trade_exchange]
       ELSE s1

\* SplitExecutor.reset_common_infra
SplitResetCommonInfra(st, l, common_infra) ==
    LET s1 == BaseResetCommonInfra(st, l, common_infra)
        s2 == IF generate_report[l] /\ common_infra.trade_exchange # "none"
              THEN [s1 EXCEPT !.trade_exchange[l] = common_infra.trade_exchange]
              ELSE s1
        s3 == reset_common_infra(s2, l + 1, common_infra)
    IN Emit(s3, "strategy_infra", l, <<>>, Some(<<common_infra>>))

\* SimulatorExecutor.reset_common_infra
SimulatorResetCommonInfra(st, l, common_infra) ==
    LET s1 == BaseResetCommonInfra(st, l, common_infra)
    IN IF common_infra.trade_exchange # "none"
       THEN [s1 EXCEPT !.trade_exchange[l] = common_infra.trade_exchange]
       ELSE s1

\* inner_executor.reset_common_infra(...): dispatch on the class of level l
reset_common_infra(st, l, common_infra) ==
    IF l = depth THEN SimulatorResetCommonInfra(st, l, common_infra)
    ELSE SplitResetCommonInfra(st, l, common_infra)

\* mutant: a reset rebuilds the calendar whatever it is given
reset_Always(st, l, track_data_arg, range, common_infra_arg) ==
    LET s1 == IF track_data_arg # <<>>
              THEN [st EXCEPT !.track_data[l] = track_data_arg[1]] ELSE st
        s2 == ExecutorReset(s1, l, st.calendar[l].start, st.calendar[l].end)
    IN IF common_infra_arg # <<>>
       THEN reset_common_infra(s2, l, common_infra_arg[1]) ELSE s2

\* BaseExecutor.reset(track_data, common_infra, start_time=..., end_time=...);
\* an argument that is not given (None) is the empty tuple
reset(st, l, track_data_arg, range, common_infra_arg) ==
    LET s1 == IF track_data_arg # <<>>
              THEN [st EXCEPT !.track_data[l] = track_data_arg[1]] ELSE st
        s2 == IF range # <<>> THEN ExecutorReset(s1, l, range[1], range[2]) ELSE s1
    IN IF common_infra_arg # <<>>
       THEN reset_common_infra(s2, l, common_infra_arg[1]) ELSE s2

\* the time range the driver may reset the root executor to: its first bar
Ranges == {<<0, time_per_step(1)>>}

Given(arg) == IF arg = <<>> THEN 0 ELSE 1

\* the driver calls root.reset(...) between two runs: first thing after
\* the construction, or after the execute that finishes the first run.  It
\* passes one argument per call.
Reset ==
    /\ Idle
    /\ Callable
    /\ call.kind = "none" \/ (call.kind = "execute" /\ finished(Cur, 1))
    /\ completed[1] \in {0, RootBars}
    /\ \E td \in {<<>>, <<TRUE>>},
          rg \in {<<>>} \cup Ranges,
          ci \in {<<>>} \cup {<<i>> : i \in Infras} :
        /\ Given(td) + Given(rg) + Given(ci) = 1
        /\ snap' = Snapshot(<<>>)
        /\ LET r == reset([Cur EXCEPT !.log = <<>>], 1, td, rg, ci)
           IN /\ Store(r)
              /\ track_data' = r.track_data
              /\ has_account' = r.has_account
              /\ trade_exchange' = r.trade_exchange
        /\ call' = [kind |-> "reset", status |-> "returned",
                    track_data |-> td, range |-> rg, common_infra |-> ci]
    /\ ret' = NoneVal
    /\ UNCHANGED <<depth, generate_report, frames>>

\* --------------------------------------------------------------- get_report
\* the "<count><frequency>" label of level l, as the length of its bar
Label(l) == time_per_step(l)
\* (_report, _positions) of the Account of level l
ReportEntry(st, l) == <<AccountOf(st, l).report, AccountOf(st, l).position>>

RECURSIVE get_report(_, _)
\* mutant: the inner mapping is dropped when this level reports
SplitGetReport_Own(st, l) ==
    IF generate_report[l] THEN Label(l) :> ReportEntry(st, l)
    ELSE get_report(st, l + 1)

\* SplitExecutor.get_report
SplitGetReport(st, l) ==
    LET sub_env_report_dict == get_report(st, l + 1)
    IN IF generate_report[l]
       THEN (Label(l) :> ReportEntry(st, l)) @@ sub_env_report_dict
       ELSE sub_env_report_dict

\* SimulatorExecutor.get_report
SimulatorGetReport(st, l) ==
    IF generate_report[l] THEN Label(l) :> ReportEntry(st, l) ELSE <<>>

\* inner_executor.get_report(): dispatch on the class of level l
get_report(st, l) ==
    IF l = depth THEN SimulatorGetReport(st, l) ELSE SplitGetReport(st, l)

\* the driver calls root.get_report()
GetReport ==
    /\ Idle
    /\ Callable
    /\ snap' = Snapshot(<<>>)
    /\ ret' = Some(get_report(Cur, 1))
    /\ call' = [kind |-> "get_report", status |-> "returned"]
    /\ log' = <<>>
    /\ UNCHANGED <<config, calendar, trade_account, position, strategy, completed, frames>>

\* the driver calls root.finished()
Finished ==
    /\ Idle
    /\ Callable
    /\ snap' = Snapshot(<<>>)
    /\ ret' = Some(finished(Cur, 1))
    /\ call' = [kind |-> "finished", status |-> "returned"]
    /\ log' = <<>>
    /\ UNCHANGED <<config, calendar, trade_account, position, strategy, completed, frames>>

\* the tree as the constructors may leave it: a level that keeps a reference
\* to an exchange got it from the common infra or as its own trade_exchange
InitInfra ==
    /\ InitTree
    /\ trade_exchange \in [Levels -> {"none"} \cup Exchanges]
    /\ \A l \in Levels : HoldsExchange(l) <=> trade_exchange[l] # "none"
    /\ \A l \in Levels : ~track_data[l] /\ strategy[l].policy = "repeat"
    /\ snap = Snapshot(<<>>)

\* the driver runs the tree with execute and may reset it, ask whether it is
\* finished and read its reports between two calls
NextInfra ==
    \/ Execute
    \/ Reset
    \/ GetReport
    \/ Finished

SpecInfra == InitInfra /\ [][NextInfra]_vars

\* ------------------------------------------------------------ reading the log
LogIdx == 1..Len(log)
IsEv(i, e, l) == log[i].ev = e /\ log[i].level = l
MaxOf(S) == CHOOSE x \in S : \A y \in S : y <= x
\* the events e of level l strictly between positions i and j
Between(i, j, e, l) == {k \in (i + 1)..(j - 1) : IsEv(k, e, l)}
\* the positions before i at which the calendar of level l was stepped or rebuilt
CalEvents(i, l) == Between(0, i, "step", l) \cup Between(0, i, "reset", l)
\* the calendar of level l just before position i of the log
CalBefore(i, l) ==
    IF CalEvents(i, l) = {} THEN snap.calendar[l] ELSE log[MaxOf(CalEvents(i, l))].cal
\* the decision handed to the call of level l that is running at position i
DecisionOf(i, l) ==
    IF l = 1 THEN snap.decision ELSE log[MaxOf(Between(0, i, "generate", l - 1))].dec
\* the position at which the call of level l that returns at position j began
BeginOf(j, l) == MaxOf(Between(0, j, "step", l))

ExecReturned == call.kind = "execute" /\ call.status = "returned"
CollectReturned == call.kind = "collect_data" /\ call.status = "returned"

\* ---------------------------------------------------------------------- C1
\* C1: every SplitExecutor.execute on a non-finished executor advances the
\* outer calendar index by exactly 1, rebuilds the inner calendar to span
\* exactly the outer bar just stepped into (inner index 0), resets the inner
\* strategy with the same decision as outer_trade_decision, and returns with
\* the inner executor finished.
C1_SplitExecuteContract ==
    call.kind = "execute" =>
      /\ \A i \in LogIdx : (log[i].ev = "step" /\ log[i].level < depth) =>
            LET l == log[i].level
                c == log[i].cal
                b == CalBefore(i, l)
                lo == c.start + (c.idx - 1) * time_per_step(l)
            IN /\ c = [b EXCEPT !.idx = b.idx + 1]
               /\ i + 2 <= Len(log)
               /\ IsEv(i + 1, "reset", l + 1)
               /\ log[i + 1].cal = [start |-> lo, end |-> lo + time_per_step(l), idx |-> 0]
               /\ IsEv(i + 2, "strategy_reset", l)
               /\ log[i + 2].dec = DecisionOf(i, l)
      /\ \A j \in LogIdx : (log[j].ev = "return" /\ log[j].level < depth) =>
            LET l == log[j].level
                inner == CalBefore(j, l + 1)
            IN /\ CalFinished(inner, time_per_step(l + 1))
               /\ inner.start = log[j].cal.start + (log[j].cal.idx - 1) * time_per_step(l)
               /\ inner.end = inner.start + time_per_step(l)
      /\ (call.status = "returned" /\ depth > 1) =>
            /\ calendar[1] = [snap.calendar[1] EXCEPT !.idx = @ + 1]
            /\ strategy[1].outer_trade_decision = snap.decision
            /\ strategy[1].level_infra = 2
            /\ calendar[2].start = calendar[1].start + snap.calendar[1].idx * time_per_step(1)
            /\ calendar[2].end = calendar[2].start + time_per_step(1)
            /\ calendar[2].idx = Ratio

\* a second outer bar has been executed with a non-empty decision
C1_Witness ==
    /\ ExecReturned /\ depth > 1
    /\ snap.calendar[1].idx >= 1
    /\ snap.decision # <<>>
    /\ calendar[2].start > 0

\* ---------------------------------------------------------------------- C2
\* C2: SplitExecutor.execute terminates: it never runs out of the model's
\* fuel, and between the begin and the return of every split-level call the
\* inner loop runs exactly as many iterations as the inner calendar has bars,
\* the k-th iteration leaving the inner calendar index at k.
C2_ExecuteTerminates ==
    call.kind = "execute" =>
      /\ call.status # "diverged"
      /\ \A j \in LogIdx : (log[j].ev = "return" /\ log[j].level < depth) =>
            LET l == log[j].level
                i == BeginOf(j, l)
                bars == BarCount(log[i + 1].cal, time_per_step(l + 1))
                steps == Between(i, j, "step", l + 1)
            IN /\ Cardinality(Between(i, j, "generate", l)) = bars
               /\ Cardinality(steps) = bars
               /\ Cardinality(Between(i, j, "return", l + 1)) = bars
               /\ \A k \in steps :
                     log[k].cal.idx = 1 + Cardinality(Between(i, k, "step", l + 1))

\* an execute of a composite has returned results of several inner bars
C2_Witness ==
    /\ ExecReturned /\ depth > 1
    /\ Cardinality(Between(0, Len(log) + 1, "generate", 1)) = Ratio
    /\ Len(ret.list) > 1

\* ---------------------------------------------------------------------- C3
\* C3: in every outer bar of execute and of collect_data, the first
\* generate_trade_decision receives None and every later one receives the
\* result returned by the immediately preceding inner execute; a result of
\* an earlier outer bar is never passed.
C3_StrategyInput ==
    \A i \in LogIdx : log[i].ev = "generate" =>
        LET l == log[i].level
            b == BeginOf(i, l)
            rets == Between(b, i, "return", l + 1)
        IN IF rets = {} THEN log[i].arg = NoneVal
           ELSE log[i].arg = log[MaxOf(rets)].arg /\ ~log[i].arg.none

\* a later outer bar: its first call got None although results exist from the
\* bar before, and its second call got the non-empty result of the first
C3_Witness ==
    /\ depth > 1
    /\ snap.completed[1] >= 1 /\ snap.completed[2] >= 1
    /\ \E i, j \in LogIdx :
          /\ i < j /\ IsEv(i, "generate", 1) /\ IsEv(j, "generate", 1)
          /\ log[i].arg = NoneVal
          /\ log[j].arg.list # <<>>

\* ---------------------------------------------------------------------- C4
ValidOrders(d) == SelectSeq(d, check_order)

\* C4 as stated: SimulatorExecutor.execute returns exactly one entry per
\* order of the decision, a "not dealt" marker standing for an order that
\* fails validation.
C4_OneEntryPerOrder ==
    \A j \in LogIdx : IsEv(j, "return", depth) =>
        Len(log[j].arg.list) = Len(DecisionOf(j, depth))

\* C4 amended: SimulatorExecutor.execute returns, in decision order, exactly
\* one entry (order, trade_val, trade_cost, trade_price) per order that
\* passes validation; an order that fails validation has no entry.
C4_EntryPerValidOrder ==
    \A j \in LogIdx : IsEv(j, "return", depth) =>
        LET res == log[j].arg.list
            valid == ValidOrders(DecisionOf(j, depth))
        IN /\ Len(res) = Len(valid)
           /\ \A k \in 1..Len(res) :
                 /\ Len(res[k]) = 4
                 /\ res[k][1] = valid[k]
                 /\ res[k][3] >= MinCost
                 /\ res[k][4] = DealPrice

\* a decision of three orders, the middle one rejected, gave two entries
C4_Witness ==
    \E j \in LogIdx :
        /\ IsEv(j, "return", depth)
        /\ Len(DecisionOf(j, depth)) = 3
        /\ Len(log[j].arg.list) = 2

\* ---------------------------------------------------------------------- C5
SameHoldings(a, b) == a.cash = b.cash /\ a.position = b.position

\* C5: an order that fails validation is not fatal and leaves cash and
\* positions alone; the orders are validated one by one in decision order,
\* the valid ones dealt, and the bar is closed exactly once after the last.
C5_RejectionIsLocal ==
    /\ \A i \in LogIdx : log[i].ev = "check" =>
          LET l == log[i].level
              o == log[i].dec[1]
              d == DecisionOf(i, l)
              n == 1 + Cardinality(Between(BeginOf(i, l), i, "check", l))
          IN /\ n <= Len(d) /\ d[n] = o
             /\ SameHoldings(log[i].acct, log[i - 1].acct)
             /\ i + 1 <= Len(log)
             /\ log[i + 1].level = l
             /\ IF check_order(o)
                THEN log[i + 1].ev = "deal" /\ log[i + 1].dec = <<o>>
                ELSE /\ log[i + 1].ev = IF n = Len(d) THEN "bar_count" ELSE "check"
                     /\ SameHoldings(log[i + 1].acct, log[i].acct)
    /\ \A j \in LogIdx : IsEv(j, "return", depth) =>
          LET b == BeginOf(j, depth)
              closes == Between(b, j, "bar_count", depth)
          IN /\ Cardinality(Between(b, j, "check", depth)) = Len(DecisionOf(j, depth))
             /\ Cardinality(closes) = 1
             /\ \A c \in closes :
                   /\ Between(c, j, "check", depth) \cup Between(c, j, "deal", depth) = {}
                   /\ log[c].acct.bar_count = log[b].acct.bar_count + 1

\* a rejected order was followed by a valid one that was dealt
C5_Witness ==
    \E i \in LogIdx :
        /\ log[i].ev = "check" /\ ~check_order(log[i].dec[1])
        /\ i + 2 <= Len(log)
        /\ log[i + 1].ev = "check" /\ log[i + 2].ev = "deal"
        /\ ~SameHoldings(log[i + 2].acct, log[i].acct)

\* ---------------------------------------------------------------------- C6
\* C6: the Account of a level holds exactly as many bar closes as calls that
\* level has completed (bar_count, and report rows where the level reports),
\* no bar window occurs twice in a report, and a composite's row is appended
\* once its inner calendar is finished, just before it returns, and carries
\* the boundaries of the outer bar.
C6_OneClosePerBar ==
    /\ \A l \in 1..depth :
          /\ has_account[l] => trade_account[l].bar_count = completed[l]
          /\ generate_report[l] =>
                LET rows == trade_account[l].report
                IN /\ Len(rows) = completed[l]
                   /\ \A a, b \in 1..Len(rows) : a # b => rows[a].start # rows[b].start
    /\ \A i \in LogIdx : log[i].ev = "bar_report" =>
          LET l == log[i].level
              rows == log[i].acct.report
              row == rows[Len(rows)]
              c == log[i].cal
          IN /\ row.start = c.start + (c.idx - 1) * time_per_step(l)
             /\ row.end = row.start + time_per_step(l)
             /\ i + 1 <= Len(log) /\ IsEv(i + 1, "return", l)
             /\ l < depth =>
                   LET inner == CalBefore(i, l + 1)
                   IN /\ CalFinished(inner, time_per_step(l + 1))
                      /\ row.start = inner.start /\ row.end = inner.end

\* a reporting composite over a reporting leaf, two outer bars completed
C6_Witness ==
    /\ depth > 1
    /\ generate_report[1] /\ generate_report[2]
    /\ completed[1] = 2
    /\ Len(trade_account[2].report) > Len(trade_account[1].report)

\* ---------------------------------------------------------------------- C7
\* C7 as stated: once a collect_data sequence has been abandoned, the
\* calendar step and the bar close for its decision have taken place.
C7_AbandonStillUpdates ==
    (call.kind = "collect_data" /\ call.status = "abandoned") =>
        /\ calendar[1].idx = snap.calendar[1].idx + 1
        /\ completed[1] = snap.completed[1] + 1
        /\ has_account[1] =>
              trade_account[1].bar_count = snap.trade_account[1].bar_count + 1

\* C7 amended: the effects of collect_data happen only as far as the caller
\* consumes the sequence.  Before the first element is requested nothing has
\* changed; while the sequence is live or once it is abandoned the bar of the
\* decision has not been closed; the calendar step and the bar close are
\* both done exactly when the sequence has been drained.
C7_LedgerFollowsConsumption ==
    call.kind = "collect_data" =>
        /\ (pc[1] = "created" \/ (call.status = "abandoned" /\ log = <<>>)) =>
              /\ calendar = snap.calendar
              /\ trade_account = snap.trade_account
              /\ position = snap.position
              /\ strategy = snap.strategy
              /\ completed = snap.completed
        /\ call.status \in {"live", "abandoned"} =>
              /\ completed[1] = snap.completed[1]
              /\ trade_account[1].bar_count = snap.trade_account[1].bar_count
              /\ trade_account[1].report = snap.trade_account[1].report
              /\ calendar[1].idx \in {snap.calendar[1].idx, snap.calendar[1].idx + 1}
        /\ call.status = "returned" =>
              /\ calendar[1].idx = snap.calendar[1].idx + 1
              /\ completed[1] = snap.completed[1] + 1
              /\ has_account[1] =>
                    trade_account[1].bar_count = snap.trade_account[1].bar_count + 1

\* a sequence abandoned after a prefix: the outer bar was entered and an
\* inner bar executed, but the outer bar was never closed
C7_Witness ==
    /\ call.kind = "collect_data" /\ call.status = "abandoned"
    /\ depth > 1 /\ has_account[1]
    /\ calendar[1].idx = snap.calendar[1].idx + 1
    /\ completed[depth] > snap.completed[depth]
    /\ trade_account[1].bar_count = snap.trade_account[1].bar_count

\* ---------------------------------------------------------------------- C8
IsGenerate(e) == e.ev = "generate"
IsYield(e) == e.ev = "yield"
NotYield(e) == e.ev # "yield"
Generated == SelectSeq(log, IsGenerate)
Yielded == SelectSeq(log, IsYield)

\* the state the call started from
SnapState ==
    [calendar |-> snap.calendar, trade_account |-> snap.trade_account,
     position |-> snap.position, strategy |-> snap.strategy,
     track_data |-> snap.track_data, has_account |-> snap.has_account,
     trade_exchange |-> snap.trade_exchange, completed |-> snap.completed, log |-> <<>>,
     diverged |-> FALSE]

\* C8: a drained collect_data(decision) returns the result list execute
\* (decision) returns from the same starting state, and leaves every level's
\* calendar, account and strategy as execute does, whatever the levels'
\* track_data.
C8_CollectEqualsExecute ==
    CollectReturned =>
        LET r == ExecuteLevel(SnapState, 1, snap.decision)
        IN /\ ret = Some(r.result)
           /\ calendar = r.st.calendar
           /\ trade_account = r.st.trade_account
           /\ position = r.st.position
           /\ strategy = r.st.strategy
           /\ completed = r.st.completed
           /\ ~r.st.diverged
           /\ SelectSeq(log, NotYield) = r.st.log

\* a drained sequence of a composite that yielded elements, closed its bar
\* and returned results
C8_Witness ==
    /\ CollectReturned /\ depth > 1
    /\ has_account[1] /\ generate_report[1]
    /\ Len(Yielded) > 1
    /\ Len(ret.list) > 1

\* ---------------------------------------------------------------------- C9
\* the elements yielded and the decisions generated, each with the level
\* that receives it
YieldedSeq == [k \in 1..Len(Yielded) |-> <<Yielded[k].level, Yielded[k].dec>>]
GeneratedSeq == [k \in 1..Len(Generated) |-> <<Generated[k].level + 1, Generated[k].dec>>]
BelowRoot(p) == p[1] > 1
Tracked(p) == track_data[p[1]]

\* C9 as stated: the sequence of a drained collect_data on a SplitExecutor
\* holds every sub-decision generated below it, once each, in order.
C9_EveryDecisionEmitted ==
    (CollectReturned /\ depth > 1) =>
        SelectSeq(YieldedSeq, BelowRoot) = GeneratedSeq

\* C9 amended: the sequence of a drained collect_data on a SplitExecutor
\* holds, once each and in the order they were made, the decisions handed to
\* the levels whose track_data is true: first the decision passed to
\* collect_data if the SplitExecutor tracks, then every sub-decision
\* generated for a tracking level below it; a sub-decision for a level that
\* does not track is not in it.  The sequence is finite.
C9_TrackedDecisionsEmitted ==
    (CollectReturned /\ depth > 1) =>
        /\ YieldedSeq = (IF track_data[1] THEN <<(<<1, snap.decision>>)>> ELSE <<>>)
                           \o SelectSeq(GeneratedSeq, Tracked)
        /\ Len(YieldedSeq) <= 1 + NCalls(depth)

\* the composite tracks and its leaf does not: sub-decisions were generated
\* and only the outer decision was yielded
C9_Witness ==
    /\ CollectReturned /\ depth > 1
    /\ track_data[1] /\ ~track_data[depth]
    /\ Len(Generated) > Len(SelectSeq(GeneratedSeq, Tracked))
    /\ Len(YieldedSeq) >= 1

\* --------------------------------------------------------------------- C10
\* C10: in collect_data a decision is yielded as soon as its level is
\* entered: before that level's calendar is stepped for it and before any
\* of its orders is matched, the next thing to happen being that step.  At
\* every tracking level exactly one bar is executed between two consecutive
\* yields, so while the sequence is live each tracking level has completed
\* (and closed on its Account) exactly the bars of the decisions yielded
\* before the one in progress.
C10_YieldBeforeExecute ==
    call.kind = "collect_data" =>
        /\ \A i \in LogIdx : log[i].ev = "yield" =>
              LET l == log[i].level
                  before == Cardinality(Between(0, i, "yield", l))
              IN /\ log[i].dec = DecisionOf(i, l)
                 /\ IF l = 1 THEN i = 1 ELSE IsEv(i - 1, "generate", l - 1)
                 /\ i < Len(log) => IsEv(i + 1, "step", l)
                 /\ log[i].cal = CalBefore(i, l)
                 /\ Cardinality(Between(0, i, "step", l)) = before
                 /\ Cardinality(Between(0, i, "return", l)) = before
                 /\ log[i].acct.bar_count = snap.trade_account[l].bar_count
                                             + (IF has_account[l] THEN before ELSE 0)
        /\ call.status = "live" =>
              \A l \in 1..depth : track_data[l] /\ pc[1] # "created" =>
                  LET done == Cardinality(Between(0, Len(log) + 1, "yield", l))
                              - (IF pc[l] = "idle" THEN 0 ELSE 1)
                  IN /\ completed[l] = snap.completed[l] + done
                     /\ has_account[l] =>
                           trade_account[l].bar_count = snap.trade_account[l].bar_count + done

\* suspended at the yield of a leaf decision after an earlier leaf bar of
\* the same call has been executed
C10_Witness ==
    /\ call.kind = "collect_data" /\ call.status = "live"
    /\ depth > 1 /\ track_data[1]
    /\ pc[depth] = "yield"
    /\ completed[depth] > snap.completed[depth]

\* --------------------------------------------------------------------- C11
\* the Position object of the Account the caller injects
CallerObj == NewAccount.positions
\* the number of shares a list of results has added to the positions
RECURSIVE NetAmount(_)
NetAmount(result) ==
    IF result = <<>> THEN 0
    ELSE LET e == Head(result)
             amount == e[2] \div e[4]
         IN (IF e[1].direction = "BUY" THEN amount ELSE 0 - amount)
            + NetAmount(Tail(result))

GeneratedDecisions == [k \in 1..Len(Generated) |-> Generated[k].dec]

\* a SimulatorExecutor run directly, bar by bar, with the given decisions
RECURSIVE DirectRun(_, _)
DirectRun(st, decisions) ==
    IF decisions = <<>> THEN st
    ELSE DirectRun(SimulatorExecute(st, depth, Head(decisions)).st, Tail(decisions))

\* the state the call started from, the leaf calendar set on the N fine
\* bars of the coarse bar the call executes
DirectStart ==
    LET lo == snap.calendar[1].start + snap.calendar[1].idx * time_per_step(1)
    IN [SnapState EXCEPT !.calendar[depth] = CalReset(lo, lo + time_per_step(1))]

\* C12: a SplitExecutor over a SimulatorExecutor, executing one coarse bar,
\* leaves the cash and the positions a SimulatorExecutor leaves that is run
\* directly over the N fine bars of that bar with the orders the inner
\* strategy produced per bar, from the same account; both runs end with the
\* fine calendar finished after N bars.
C12_NestingEquivalence ==
    (ExecReturned /\ depth = 2) =>
        LET direct == DirectRun(DirectStart, GeneratedDecisions)
        IN /\ Len(GeneratedDecisions) = Ratio
           /\ SameHoldings(AccountOf(direct, depth), AccountOf(Cur, depth))
           /\ direct.calendar[depth] = calendar[depth]
           /\ finished(direct, depth)

\* a coarse bar in which the inner strategy changed its orders from one fine
\* bar to the next and the leaf dealt
C12_Witness ==
    /\ ExecReturned /\ depth = 2
    /\ \E a, b \in 1..Len(GeneratedDecisions) :
          GeneratedDecisions[a] # GeneratedDecisions[b]
    /\ ~SameHoldings(AccountOf(Cur, depth), AccountOf(SnapState, depth))

\* --------------------------------------------------------------------- C13
\* the window of the bar a calendar has stepped into
Window(cal, l) ==
    <<cal.start + (cal.idx - 1) * time_per_step(l), cal.start + cal.idx * time_per_step(l)>>
\* the positions of the log at which level l stepped into a bar
Steps(l) == {i \in LogIdx : IsEv(i, "step", l)}
\* the events of a level below l strictly between positions i and j
Below(i, j, l) == {k \in (i + 1)..(j - 1) : log[k].level > l}

\* C13: the bars of a level are executed one after the other in the order
\* of their windows and never overlap: two steps of a level have disjoint,
\* increasing windows with a return of that level between them, the first
\* bar of a call follows the last bar executed before the call, the bars of
\* a level lie inside the bar of the level above that is in progress, and
\* a composite closes its bar (bar count, report row, return) only after
\* its inner calendar is finished and with no event of a lower level after
\* the close.
C13_BarsInOrder ==
    /\ \A l \in 1..depth : \A i \in Steps(l) :
          LET w == Window(log[i].cal, l)
              earlier == {k \in Steps(l) : k < i}
          IN /\ \A k \in earlier :
                   /\ Window(log[k].cal, l)[2] <= w[1]
                   /\ Between(k, i, "return", l) # {}
             /\ (earlier = {} /\ snap.completed[l] > 0) =>
                   Window(snap.calendar[l], l)[2] <= w[1]
             /\ l > 1 =>
                   LET up == Window(CalBefore(i, l - 1), l - 1)
                   IN up[1] <= w[1] /\ w[2] <= up[2]
    /\ \A j \in LogIdx : (log[j].ev = "return" /\ log[j].level < depth) =>
          LET l == log[j].level
              b == BeginOf(j, l)
              closes == Between(b, j, "bar_count", l) \cup Between(b, j, "bar_report", l)
              inner == Between(b, j, "return", l + 1)
          IN /\ CalFinished(CalBefore(j, l + 1), time_per_step(l + 1))
             /\ Cardinality(inner) = Ratio
             /\ has_account[l] => closes # {}
             /\ \A c \in closes :
                   /\ \A k \in inner : k < c
                   /\ Below(c, j, l) = {}
                   /\ \A k \in Below(b, c, l) : log[k].ev = "step" =>
                         /\ Window(log[k].cal, log[k].level)[1] >= Window(log[c].cal, l)[1]
                         /\ Window(log[k].cal, log[k].level)[2] <= Window(log[c].cal, l)[2]

\* the second outer bar of a composite with an Account of its own: its inner
\* bars were dealt and closed, then the outer bar was closed
C13_Witness ==
    /\ depth > 1 /\ has_account[1]
    /\ call.status = "returned"
    /\ snap.completed[1] >= 1
    /\ Between(0, Len(log) + 1, "deal", depth) # {}
    /\ Between(0, Len(log) + 1, "bar_count", 1) # {}

\* --------------------------------------------------------------------- C14
\* the bars of level l in the time range of the run
RunBars(l) == (RootBars * time_per_step(1)) \div time_per_step(l)

\* C14: at every reporting level the report rows are the bars of the run in
\* order, each once and none left out: the k-th row is the k-th bar of the
\* level's frequency counted from the start of the run, also at an inner
\* level whose calendar is rebuilt for every outer bar; when the root
\* executor is finished, every bar of the run has its row.
C14_ReportOrdering ==
    \A l \in 1..depth : generate_report[l] =>
        LET rows == trade_account[l].report
        IN /\ \A k \in 1..Len(rows) :
                 /\ rows[k].start = calendar[1].start + (k - 1) * time_per_step(l)
                 /\ rows[k].end = rows[k].start + time_per_step(l)
           /\ \A a, b \in 1..Len(rows) : a < b => rows[a].start < rows[b].start
           /\ Len(rows) <= RunBars(l)
           /\ (finished(Cur, 1) /\ Idle /\ call.status = "returned") =>
                 Len(rows) = RunBars(l)

\* a full run of a reporting composite over a reporting leaf: the leaf's
\* rows span several outer bars
C14_Witness ==
    /\ depth > 1 /\ generate_report[1] /\ generate_report[depth]
    /\ finished(Cur, 1) /\ Idle /\ call.status = "returned"
    /\ Len(trade_account[1].report) > 1
    /\ Len(trade_account[depth].report) = RunBars(depth)
    /\ Len(trade_account[depth].report) > Ratio

\* --------------------------------------------------------------------- C15
GotReport == call.kind = "get_report" /\ call.status = "returned"
ReportingLevels == {l \in 1..depth : generate_report[l]}

CalledFinished == CalFinished(snap.calendar[1], time_per_step(1))

\* C16: execute, or a drained collect_data, on an executor whose calendar is
\* finished fails at calendar.step(), the first thing it does: the call
\* raises and never returns, no order is validated or dealt, the inner
\* executor and strategy are neither reset nor called, and every calendar
\* and account is as it was.  All collect_data has done by then is yield
\* the decision itself if the executor tracks.
C16_FinishedFailsFirst ==
    call.kind \in {"execute", "collect_data"} =>
        /\ (call.kind = "execute" /\ CalledFinished) => call.status = "raised"
        /\ CalledFinished => call.status # "returned"
        /\ call.status = "raised" =>
              /\ CalledFinished
              /\ calendar = snap.calendar
              /\ trade_account = snap.trade_account
              /\ position = snap.position
              /\ strategy = snap.strategy
              /\ completed = snap.completed
              /\ Idle
              /\ \A i \in LogIdx : IsEv(i, "yield", 1) /\ log[i].dec = snap.decision
              /\ Len(log) = (IF call.kind = "collect_data" /\ track_data[1] THEN 1 ELSE 0)
        /\ (CalledFinished /\ call.status \in {"live", "abandoned"}) =>
              /\ calendar = snap.calendar
              /\ trade_account = snap.trade_account
              /\ position = snap.position
              /\ completed = snap.completed

\* a tracking composite whose calendar is finished was asked to collect data
\* for a non-empty decision: it yielded the decision, then failed
C16_Witness ==
    /\ call.kind = "collect_data" /\ call.status = "raised"
    /\ depth > 1 /\ track_data[1]
    /\ snap.decision # <<>>
    /\ snap.completed[1] > 0
    /\ Len(log) = 1

\* --------------------------------------------------------------------- C17
\* the last call was root.reset(common_infra=...)
InfraReset == call.kind = "reset" /\ call.common_infra # <<>>
InfraGiven == call.common_infra[1]

\* C17: reset_common_infra on the root reaches every level below it and
\* every inner strategy with the same infra.  If the infra holds a
\* trade_exchange E, the leaf and every reporting composite refer to E from
\* then on, whatever exchange they were constructed with, and a composite
\* that does not report keeps none; if it holds a trade_account every level
\* has an Account of its own, reset for the level.  The orders of an execute
\* are validated and dealt with the leaf's exchange and a composite's bar is
\* valued with the composite's, which no execute changes.
C17_InfraPropagates ==
    /\ InfraReset =>
          /\ \A l \in 1..depth :
                Cardinality({i \in LogIdx : IsEv(i, "infra", l)
                                            /\ log[i].arg = Some(<<InfraGiven>>)}) = 1
          /\ \A l \in 1..(depth - 1) :
                Cardinality({i \in LogIdx : IsEv(i, "strategy_infra", l)
                                            /\ log[i].arg = Some(<<InfraGiven>>)}) = 1
          /\ \A l \in 1..depth :
                trade_exchange[l] =
                    IF InfraGiven.trade_exchange # "none" /\ HoldsExchange(l)
                    THEN InfraGiven.trade_exchange
                    ELSE snap.trade_exchange[l]
          /\ IF InfraGiven.trade_account # "none"
             THEN \A l \in 1..depth :
                     /\ has_account[l]
                     /\ trade_account[l].bar_count = 0
                     /\ trade_account[l].report = <<>>
                     /\ trade_account[l].cash = NewAccount.cash
             ELSE trade_account = snap.trade_account /\ has_account = snap.has_account
          /\ calendar = snap.calendar
          /\ track_data = snap.track_data
    /\ ExecReturned =>
          /\ trade_exchange = snap.trade_exchange
          /\ \A i \in LogIdx :
                /\ log[i].ev \in {"check", "deal"} =>
                      log[i].exch = snap.trade_exchange[depth] /\ log[i].exch # "none"
                /\ log[i].ev = "bar_report" =>
                      log[i].exch = snap.trade_exchange[log[i].level] /\ log[i].exch # "none"

\* a tree of a reporting composite over a leaf, both constructed with the
\* exchange E1 of their own, was reset with an infra that holds E2 only
C17_Witness ==
    /\ InfraReset /\ depth > 1
    /\ InfraGiven = [trade_account |-> "none", trade_exchange |-> "E2"]
    /\ generate_report[1]
    /\ snap.trade_exchange[1] = "E1" /\ snap.trade_exchange[depth] = "E1"
    /\ trade_exchange[1] = "E2" /\ trade_exchange[depth] = "E2"
    /\ snap.completed[1] > 0

\* --------------------------------------------------------------------- C18
\* a calendar whose index lies within its bars
IndexInRange(cal, l) == 0 <= cal.idx /\ cal.idx <= BarCount(cal, time_per_step(l))
RangeReset == call.kind = "reset" /\ call.range # <<>>

\* C18: at every level the calendar index stays between 0 and the bar
\* count and finished() holds exactly at the bar count.  The index changes
\* in two ways only: the step of an execute adds 1 to it, on a calendar that
\* was not finished, and a reset with a time range rebuilds the calendar on
\* that range with index 0, not finished, whatever it was before.  No other
\* event of a call and no call of finished() changes a calendar; finished()
\* answers whether the index is at the bar count.
C18_CalendarIndex ==
    /\ \A l \in 1..depth :
          /\ IndexInRange(calendar[l], l)
          /\ finished(Cur, l) <=> calendar[l].idx = BarCount(calendar[l], time_per_step(l))
          /\ calendar[l] = CalBefore(Len(log) + 1, l)
    /\ \A i \in LogIdx :
          LET l == log[i].level
              c == log[i].cal
              b == CalBefore(i, l)
          IN /\ IndexInRange(c, l)
             /\ IF log[i].ev = "step"
                THEN c = [b EXCEPT !.idx = b.idx + 1] /\ ~CalFinished(b, time_per_step(l))
                ELSE IF log[i].ev = "reset"
                THEN c.idx = 0 /\ c.start < c.end /\ ~CalFinished(c, time_per_step(l))
                ELSE c = b
    /\ ExecReturned => calendar[1].idx = snap.calendar[1].idx + 1
    /\ call.kind = "reset" =>
          IF call.range # <<>>
          THEN /\ calendar[1] = [start |-> call.range[1], end |-> call.range[2], idx |-> 0]
               /\ ~finished(Cur, 1)
               /\ Cardinality({i \in LogIdx : log[i].ev = "reset"}) = 1
          ELSE calendar = snap.calendar
    /\ (call.kind = "finished" /\ call.status = "returned") =>
          /\ ret.list = (snap.calendar[1].idx
                            = BarCount(snap.calendar[1], time_per_step(1)))
          /\ calendar = snap.calendar
          /\ trade_account = snap.trade_account
          /\ position = snap.position
          /\ strategy = snap.strategy
          /\ completed = snap.completed
          /\ track_data = snap.track_data

\* a composite whose calendar was finished after a run was reset with a
\* time range: its index is back at 0 and it is not finished
C18_Witness ==
    /\ RangeReset /\ depth > 1
    /\ CalFinished(snap.calendar[1], time_per_step(1))
    /\ snap.calendar[1].idx > 1
    /\ calendar[1].idx = 0
    /\ ~finished(Cur, 1)

\* --------------------------------------------------------------------- C19
\* the Account of level l as it was just before position i of the log
AcctBefore(i, l) ==
    LET before == {k \in 1..(i - 1) : log[k].level = l}
    IN IF before = {} THEN AccountOf(SnapState, l) ELSE log[MaxOf(before)].acct
IsPrefix(s, t) == Len(s) <= Len(t) /\ \A k \in 1..Len(s) : s[k] = t[k]

\* C19: a reset changes only what it is given.  With a common_infra alone
\* it leaves every calendar and index alone; with a time range alone, from
\* the driver or from the SplitExecutor above at the start of every outer
\* bar, it leaves the executor's Account, exchange and track_data alone;
\* with track_data alone it sets that flag of the executor and nothing
\* else.  So the bar count and the report rows of an Account grow from
\* call to call and from run to run, and start again from zero only at a
\* reset whose infra holds a trade_account.
C19_ResetFrame ==
    /\ call.kind = "reset" =>
          /\ call.range = <<>> => calendar = snap.calendar
          /\ call.common_infra = <<>> =>
                /\ trade_account = snap.trade_account
                /\ position = snap.position
                /\ has_account = snap.has_account
                /\ trade_exchange = snap.trade_exchange
          /\ call.track_data = <<>> => track_data = snap.track_data
          /\ call.track_data # <<>> =>
                track_data = [snap.track_data EXCEPT ![1] = call.track_data[1]]
          /\ call.range # <<>> =>
                \A l \in 2..depth : calendar[l] = snap.calendar[l]
          /\ strategy = snap.strategy
    /\ \A i \in LogIdx : log[i].ev = "reset" =>
          /\ log[i].acct = AcctBefore(i, log[i].level)
          /\ log[i].exch = snap.trade_exchange[log[i].level]
    /\ \A l \in 1..depth :
          IF call.kind = "reset" /\ call.common_infra # <<>>
             /\ call.common_infra[1].trade_account # "none"
          THEN trade_account[l].bar_count = 0 /\ trade_account[l].report = <<>>
          ELSE /\ trade_account[l].bar_count =
                     snap.trade_account[l].bar_count
                     + (IF has_account[l] THEN completed[l] - snap.completed[l] ELSE 0)
               /\ IsPrefix(snap.trade_account[l].report, trade_account[l].report)

\* after a reset of the time range only, the leaf of a composite has gone
\* on counting: its Account holds more bars than one run has
C19_Witness ==
    /\ ExecReturned /\ depth > 1
    /\ trade_account[depth].bar_count > RunBars(depth)
    /\ generate_report[depth]
    /\ Len(trade_account[depth].report) = trade_account[depth].bar_count

\* --------------------------------------------------------------------- C20
\* C20: at a level that does not generate a report no execute appends a
\* report row and get_report has no entry for the level, yet every execute
\* the level completes adds exactly 1 to the bar count of its Account, if
\* it holds one (a SplitExecutor may hold none, a leaf always does).  At a
\* reporting level every close adds a row as well, so the number of rows
\* equals the bar count there, and only there once a bar is completed.
C20_BarCountWithoutReport ==
    /\ \A l \in 1..depth :
          IF generate_report[l]
          THEN Len(trade_account[l].report) = trade_account[l].bar_count
          ELSE /\ trade_account[l].report = <<>>
               /\ GotReport => Label(l) \notin DOMAIN ret.list
               /\ ExecReturned =>
                     IF has_account[l]
                     THEN /\ trade_account[l].bar_count =
                                snap.trade_account[l].bar_count
                                + (completed[l] - snap.completed[l])
                          /\ completed[l] > snap.completed[l]
                          /\ Len(trade_account[l].report) # trade_account[l].bar_count
                     ELSE trade_account[l] = snap.trade_account[l]
    /\ \A j \in LogIdx : log[j].ev = "return" =>
          LET l == log[j].level
              b == BeginOf(j, l)
          IN /\ Cardinality(Between(b, j, "bar_count", l))
                   = (IF has_account[l] THEN 1 ELSE 0)
             /\ Cardinality(Between(b, j, "bar_report", l))
                   = (IF generate_report[l] THEN 1 ELSE 0)
             /\ log[j].acct.bar_count = AcctBefore(b, l).bar_count
                                          + (IF has_account[l] THEN 1 ELSE 0)

\* a composite that holds an Account and does not report, over a reporting
\* leaf, has completed a second bar: no row, bar count 2
C20_Witness ==
    /\ ExecReturned /\ depth > 1
    /\ has_account[1] /\ ~generate_report[1] /\ generate_report[depth]
    /\ trade_account[1].bar_count = 2
    /\ trade_account[1].report = <<>>
    /\ Len(trade_account[depth].report) = 2 * Ratio
====
